---- MODULE Spec2Model ----
(***************************************************************************)
(* Daydicated 2026: the entry cache of calendar.js, the auth module and    *)
(* the application controller (app.js) that drives them, over a Firestore  *)
(* "entries" collection.  Every await of the code is a suspension point:   *)
(* the part of a handler before the await is one action, the storage or    *)
(* auth service acting is another, and the continuation after the await    *)
(* is a third.  Strings that the code inspects character by character      *)
(* (rating input, note) are sequences of one-character strings.            *)
(***************************************************************************)
EXTENDS Integers, Sequences, FiniteSets

\* ---------------------------------------------------------------- bounds
\* Accounts that exist in Firebase Authentication (their uid).
Users == {"u1", "u2"}
UserSeq == <<"u1", "u2">>
\* Days of the year that are clicked, in calendar order.
DateSeq == <<"2026-03-15", "2026-03-16">>
Dates == {DateSeq[i] : i \in 1..Len(DateSeq)}
\* Most operations awaiting the auth or storage service at one time.
MaxPending == 2
\* Most handler invocations (user events) in one run.
MaxEvents == 4

\* ---------------------------------------------------------------- values
\* The number NaN (parseInt of text without leading digits).
NaN == -999
Digits == <<"0", "1", "2", "3", "4", "5", "6", "7", "8", "9">>
IsDigit(c) == \E i \in 1..10 : Digits[i] = c
DigitVal(c) == (CHOOSE i \in 1..10 : Digits[i] = c) - 1
IsSpace(c) == c \in {" ", "\t", "\n"}

RECURSIVE SkipSpaces(_)
SkipSpaces(s) ==
    IF s # <<>> /\ IsSpace(Head(s)) THEN SkipSpaces(Tail(s)) ELSE s

RECURSIVE ParseDigits(_, _)
ParseDigits(s, acc) ==
    IF s # <<>> /\ IsDigit(Head(s))
    THEN ParseDigits(Tail(s), 10 * acc + DigitVal(Head(s)))
    ELSE acc

\* parseInt(text): leading white space, an optional sign, then the longest
\* run of digits; NaN when there is no digit.
parseInt(text) ==
    LET s == SkipSpaces(text)
        neg == s # <<>> /\ Head(s) = "-"
        t == IF s # <<>> /\ Head(s) \in {"-", "+"} THEN Tail(s) ELSE s
    IN  IF t = <<>> \/ ~IsDigit(Head(t)) THEN NaN
        ELSE IF neg THEN 0 - ParseDigits(t, 0) ELSE ParseDigits(t, 0)

RECURSIVE NatToString(_)
NatToString(n) ==
    IF n < 10 THEN <<Digits[n + 1]>>
    ELSE NatToString(n \div 10) \o <<Digits[(n % 10) + 1]>>

\* String(n) for an integer n.
NumberToString(n) == IF n < 0 THEN <<"-">> \o NatToString(0 - n) ELSE NatToString(n)

RECURSIVE TrimEnd(_)
TrimEnd(s) ==
    IF s # <<>> /\ IsSpace(s[Len(s)]) THEN TrimEnd(SubSeq(s, 1, Len(s) - 1)) ELSE s

\* String.prototype.trim
trim(s) == TrimEnd(SkipSpaces(s))

\* note || '' : the only falsy string is the empty one.
NoteOrEmpty(note) == IF note = <<>> THEN <<>> ELSE note

\* n || 3 for a number n: 0 and NaN are falsy.
RatingOr3(n) == IF n = 0 \/ n = NaN THEN 3 ELSE n

SeqIndex(seq, x) == CHOOSE i \in 1..Len(seq) : seq[i] = x

Remove(seq, i) == SubSeq(seq, 1, i - 1) \o SubSeq(seq, i + 1, Len(seq))

\* ---------------------------------------------------------------- storage
\* Variant: the document id is the date alone.
DocId_DateOnly(uid, date) == date

\* The composite document id `${user.uid}_${date}`.
DocId(uid, date) == uid \o "_" \o date

\* setDoc(doc(db, 'entries', id), data): create or overwrite one document.
setDoc(st, id, data) ==
    [k \in DOMAIN st \cup {id} |-> IF k = id THEN data ELSE st[k]]

\* Firestore orderBy('date'): by date, ties by document name.
DocRank(st, id) ==
    SeqIndex(DateSeq, st[id].date) * (Len(UserSeq) + 1) + SeqIndex(UserSeq, st[id].userId)

RECURSIVE OrderByDate(_, _)
OrderByDate(st, ids) ==
    IF ids = {} THEN <<>>
    ELSE LET first == CHOOSE i \in ids : \A j \in ids : DocRank(st, i) <= DocRank(st, j)
         IN  <<[id |-> first, data |-> st[first]]>> \o OrderByDate(st, ids \ {first})

\* Variant: the query without its where clause.
QueryUserEntries_NoWhere(st, userId) == OrderByDate(st, DOMAIN st)

\* query(entriesRef, where('userId', '==', userId), orderBy('date'))
QueryUserEntries(st, userId) ==
    OrderByDate(st, {id \in DOMAIN st : st[id].userId = userId})

\* The forEach of loadUserEntries: entries[data.date] = {id, rating, note}.
RECURSIVE BuildEntries(_, _)
BuildEntries(snapshot, entries) ==
    IF snapshot = <<>> THEN entries
    ELSE LET d == Head(snapshot)
             e == [id |-> d.id, rating |-> d.data.rating, note |-> d.data.note]
         IN  BuildEntries(Tail(snapshot),
                 [k \in DOMAIN entries \cup {d.data.date} |->
                     IF k = d.data.date THEN e ELSE entries[k]])

\* The set built by getAllUsers from every document's userId.
AllUserIds(st) == {st[id].userId : id \in DOMAIN st}

\* Firestore security rules of the README.
AllowRead(auth) == auth # "null"
AllowWrite(auth, data) == auth # "null" /\ auth = data.userId

\* ---------------------------------------------------------------- state
VARIABLES
    entries,          \* the Firestore collection 'entries': document id -> data
    authUser,         \* auth.currentUser of the Firebase SDK ("null" or a uid)
    currentUser,      \* auth.js: let currentUser
    currentEntries,   \* calendar.js: let currentEntries (date -> {id, rating, note})
    viewingUserId,    \* calendar.js: let viewingUserId
    pending,          \* operations awaiting the auth or storage service, oldest first
    loginSection,     \* loginSection.style.display
    appSection,       \* appSection.style.display
    userEmailSpan,    \* userEmailSpan.textContent (the account shown)
    loadingSpinner,   \* loadingSpinner.style.display
    userSelector,     \* the option values of the dropdown (besides the placeholder)
    calendarContainer,\* what renderCalendar last put into the container
    editModal,        \* the edit modal: shown flag, date span, rating and note inputs
    alertContainer,   \* the alerts showAlert appended and no timer removed yet
    events,           \* handler invocations so far
    download,         \* the file downloadFile last handed to the browser
    call              \* a call of a calendar helper: its arguments and its result

vars == <<entries, authUser, currentUser, currentEntries, viewingUserId, pending,
          loginSection, appSection, userEmailSpan, loadingSpinner, userSelector,
          calendarContainer, editModal, alertContainer, events, download, call>>

NoEntries == [d \in {} |-> 0]

\* Nothing was downloaded yet.
NoDownload == [filename |-> "", mimeType |-> "", content |-> <<>>]

\* No calendar helper is being called.
NoCall == [fn |-> "none"]

\* calendarContainer.innerHTML = ''
EmptyContainer == [rendered |-> FALSE, userId |-> "null", isEditable |-> FALSE,
                   cells |-> NoEntries]

\* A document that an earlier session left in the collection.
SeedDoc(uid, date) == [userId |-> uid, date |-> date, rating |-> 5, note |-> <<"o", "k">>]

\* The collection that earlier sessions left behind: one entry of each user.
SeedCollections ==
    {[id \in {DocId(k[1], k[2]) : k \in ks} |->
        LET k == CHOOSE k \in ks : DocId(k[1], k[2]) = id IN SeedDoc(k[1], k[2])]
     : ks \in {{<<"u1", DateSeq[1]>>, <<"u2", DateSeq[2]>>}}}

Init ==
    /\ entries \in SeedCollections
    /\ authUser = "null"
    /\ currentUser = "null"
    /\ currentEntries = NoEntries
    /\ viewingUserId = "null"
    /\ pending = <<>>
    /\ loginSection = "block"
    /\ appSection = "none"
    /\ userEmailSpan = ""
    /\ loadingSpinner = "none"
    /\ userSelector = {}
    /\ calendarContainer = EmptyContainer
    /\ editModal = [shown |-> FALSE, date |-> "", rating |-> <<>>, note |-> <<>>]
    /\ alertContainer = {}
    /\ events = 0
    /\ download = NoDownload
    /\ call = NoCall

\* auth.js getCurrentUser(): currentUser || auth.currentUser
getCurrentUser == IF currentUser # "null" THEN currentUser ELSE authUser

CanStart == Len(pending) < MaxPending /\ events < MaxEvents

showLoading(show) == IF show THEN "flex" ELSE "none"

\* showAlert(`${message}: ${error.message}`, type): the container after the alert
\* is appended; error names the call that failed ("" when no error is shown).
showAlert(message, error, type) ==
    alertContainer \cup {[type |-> type, message |-> message, error |-> error]}

\* Every alert the handlers can show.
Alerts ==
    [type : {"danger"},
     message : {"Login failed", "Logout failed", "Failed to load calendar",
                "Failed to save entry", "Failed to load calendar data", "Export failed"},
     error : {"signIn", "signOut", "getDocs", "setDoc", "TypeError", "",
              "Must be logged in to save entries"}]
    \cup [type : {"success"},
          message : {"Entry saved successfully!", "CSV exported successfully!",
                     "JSON exported successfully!"},
          error : {""}]

\* The catch block of the handler that called displayCalendar.
LoadFailedAlert(h) ==
    IF h = "change" THEN showAlert("Failed to load calendar", "getDocs", "danger")
    ELSE IF h = "submit" THEN showAlert("Failed to save entry", "getDocs", "danger")
    ELSE showAlert("Failed to load calendar data", "", "danger")

\* ---------------------------------------------------------------- auth
\* app.js handleLogin up to `await login(email, password)`; u is the account
\* the typed email names.
HandleLogin(u) ==
    /\ loginSection = "block"
    /\ CanStart
    /\ loadingSpinner' = showLoading(TRUE)
    /\ pending' = Append(pending, [op |-> "signIn", user |-> u])
    /\ events' = events + 1
    /\ UNCHANGED <<call, download, alertContainer, entries, authUser, currentUser, currentEntries, viewingUserId,
                   loginSection, appSection, userEmailSpan, userSelector,
                   calendarContainer, editModal>>

\* signInWithEmailAndPassword resolves.  The SDK sets auth.currentUser and, when
\* the uid changed, notifies the onAuthChange listener (currentUser = user, then
\* the synchronous part of handleAuthStateChange up to `await loadUserSelector()`,
\* whose getAllUsers is now awaited); then login and handleLogin continue:
\* currentUser = userCredential.user, loginForm.reset(), showLoading(false).
SignInResolve(i) ==
    /\ i \in 1..Len(pending)
    /\ pending[i].op = "signIn"
    /\ LET u == pending[i].user
           notified == authUser # u
       IN  /\ authUser' = u
           /\ currentUser' = u
           /\ loginSection' = IF notified THEN "none" ELSE loginSection
           /\ appSection' = IF notified THEN "block" ELSE appSection
           /\ userEmailSpan' = IF notified THEN u ELSE userEmailSpan
           /\ pending' = IF notified
                         THEN Append(Remove(pending, i), [op |-> "getAllUsers", user |-> u])
                         ELSE Remove(pending, i)
    /\ loadingSpinner' = showLoading(FALSE)
    /\ UNCHANGED <<call, download, alertContainer, entries, currentEntries, viewingUserId, userSelector,
                   calendarContainer, editModal, events>>

\* signInWithEmailAndPassword rejects: showAlert('Login failed'), showLoading(false).
SignInReject(i) ==
    /\ i \in 1..Len(pending)
    /\ pending[i].op = "signIn"
    /\ pending' = Remove(pending, i)
    /\ loadingSpinner' = showLoading(FALSE)
    /\ alertContainer' = showAlert("Login failed", "signIn", "danger")
    /\ UNCHANGED <<call, download, entries, authUser, currentUser, currentEntries, viewingUserId,
                   loginSection, appSection, userEmailSpan, userSelector,
                   calendarContainer, editModal, events>>

\* app.js handleLogout up to `await logout()`.
HandleLogout ==
    /\ appSection = "block"
    /\ CanStart
    /\ loadingSpinner' = showLoading(TRUE)
    /\ pending' = Append(pending, [op |-> "signOut"])
    /\ events' = events + 1
    /\ UNCHANGED <<call, download, alertContainer, entries, authUser, currentUser, currentEntries, viewingUserId,
                   loginSection, appSection, userEmailSpan, userSelector,
                   calendarContainer, editModal>>

\* signOut resolves.  When a user was signed in the listener runs
\* handleAuthStateChange(null): the login section is shown and the calendar
\* container is emptied.  Then logout sets currentUser = null, showLoading(false).
SignOutResolve(i) ==
    /\ i \in 1..Len(pending)
    /\ pending[i].op = "signOut"
    /\ LET notified == authUser # "null"
       IN  /\ loginSection' = IF notified THEN "block" ELSE loginSection
           /\ appSection' = IF notified THEN "none" ELSE appSection
           /\ calendarContainer' = IF notified THEN EmptyContainer ELSE calendarContainer
    /\ authUser' = "null"
    /\ currentUser' = "null"
    /\ pending' = Remove(pending, i)
    /\ loadingSpinner' = showLoading(FALSE)
    /\ UNCHANGED <<call, download, alertContainer, entries, currentEntries, viewingUserId, userEmailSpan, userSelector,
                   editModal, events>>

\* signOut rejects: showAlert('Logout failed'), showLoading(false).
SignOutReject(i) ==
    /\ i \in 1..Len(pending)
    /\ pending[i].op = "signOut"
    /\ pending' = Remove(pending, i)
    /\ loadingSpinner' = showLoading(FALSE)
    /\ alertContainer' = showAlert("Logout failed", "signOut", "danger")
    /\ UNCHANGED <<call, download, entries, authUser, currentUser, currentEntries, viewingUserId,
                   loginSection, appSection, userEmailSpan, userSelector,
                   calendarContainer, editModal, events>>

\* ---------------------------------------------------------------- loads
\* calendar.js loadUserEntries up to `await getDocs(q)`, called by displayCalendar
\* on behalf of handler h.
GetDocsRequest(userId, h) == [op |-> "getDocs", userId |-> userId, handler |-> h,
                              pc |-> "sent", snapshot |-> <<>>]

\* The owners whose loads are awaiting storage.
PendingLoads(q) == {q[k].userId : k \in {j \in 1..Len(q) : q[j].op = "getDocs"}}

\* displayCalendar(userId) of handler h reaches the await of loadUserEntries.  Each
\* save that is awaiting storage notes the owner of the load that now overlaps it
\* (history only: no code reads it).
AwaitGetDocs(q, userId, h) ==
    Append([k \in 1..Len(q) |->
               IF q[k].op = "setDoc" THEN [q[k] EXCEPT !.loads = @ \cup {userId}] ELSE q[k]],
           GetDocsRequest(userId, h))

\* loadUserSelector continues after getAllUsers resolved (ok) or rejected (the
\* error is only logged); then handleAuthStateChange calls displayCalendar(user.uid).
LoadUserSelectorResume(i, ok) ==
    /\ i \in 1..Len(pending)
    /\ pending[i].op = "getAllUsers"
    /\ ok => AllowRead(authUser)
    /\ userSelector' =
         IF ok
         THEN (IF getCurrentUser # "null" THEN {getCurrentUser} ELSE {})
                \cup AllUserIds(entries)
         ELSE userSelector
    /\ pending' = AwaitGetDocs(Remove(pending, i), pending[i].user, "auth")
    /\ UNCHANGED <<call, download, alertContainer, entries, authUser, currentUser, currentEntries, viewingUserId,
                   loginSection, appSection, userEmailSpan, loadingSpinner,
                   calendarContainer, editModal, events>>

\* app.js handleUserChange up to the await inside displayCalendar; the user picks
\* option v of the dropdown (for the placeholder "" the handler returns at once).
HandleUserChange(v) ==
    /\ appSection = "block"
    /\ v \in userSelector
    /\ CanStart
    /\ loadingSpinner' = showLoading(TRUE)
    /\ pending' = AwaitGetDocs(pending, v, "change")
    /\ events' = events + 1
    /\ UNCHANGED <<call, download, alertContainer, entries, authUser, currentUser, currentEntries, viewingUserId,
                   loginSection, appSection, userEmailSpan, userSelector,
                   calendarContainer, editModal>>

\* The storage service runs the query of a pending load.
GetDocsRespond(i) ==
    /\ i \in 1..Len(pending)
    /\ pending[i].op = "getDocs"
    /\ pending[i].pc = "sent"
    /\ AllowRead(authUser)
    /\ pending' = [pending EXCEPT ![i].pc = "ready",
                                  ![i].snapshot = QueryUserEntries(entries, pending[i].userId)]
    /\ UNCHANGED <<call, download, alertContainer, entries, authUser, currentUser, currentEntries, viewingUserId,
                   loginSection, appSection, userEmailSpan, loadingSpinner, userSelector,
                   calendarContainer, editModal, events>>

\* Variant: the load empties the cache before it awaits, so a failed load leaves
\* it empty.
GetDocsReject_ClearsCache(i) ==
    /\ i \in 1..Len(pending)
    /\ pending[i].op = "getDocs"
    /\ pending[i].pc = "sent"
    /\ pending' = Remove(pending, i)
    /\ currentEntries' = NoEntries
    /\ loadingSpinner' = showLoading(FALSE)
    /\ alertContainer' = LoadFailedAlert(pending[i].handler)
    /\ UNCHANGED <<call, download, entries, authUser, currentUser, viewingUserId,
                   loginSection, appSection, userEmailSpan, userSelector,
                   calendarContainer, editModal, events>>

\* getDocs rejects: loadUserEntries and displayCalendar rethrow, the handler's
\* catch shows an alert and its finally hides the spinner.
GetDocsReject(i) ==
    /\ i \in 1..Len(pending)
    /\ pending[i].op = "getDocs"
    /\ pending[i].pc = "sent"
    /\ pending' = Remove(pending, i)
    /\ loadingSpinner' = showLoading(FALSE)
    /\ alertContainer' = LoadFailedAlert(pending[i].handler)
    /\ UNCHANGED <<call, download, entries, authUser, currentUser, currentEntries, viewingUserId,
                   loginSection, appSection, userEmailSpan, userSelector,
                   calendarContainer, editModal, events>>

\* Variant: editable for whoever is logged in.
IsEditable_AnyUser(userId) == getCurrentUser # "null"

\* displayCalendar: isEditable = currentUser && currentUser.uid === userId
IsEditable(userId) == getCurrentUser # "null" /\ getCurrentUser = userId

\* renderCalendar/renderMonth: every day cell shows the cached entry of its date
\* and gets the click listener, closed over that entry, when isEditable.
renderCalendar(userId, isEditable, cache) ==
    [rendered |-> TRUE, userId |-> userId, isEditable |-> isEditable, cells |-> cache]

\* Variant: a load whose owner is no longer the latest one requested drops its
\* result.
LoadUserEntriesResume_NewestOnly(i) ==
    /\ i \in 1..Len(pending)
    /\ pending[i].op = "getDocs"
    /\ pending[i].pc = "ready"
    /\ LET newest == \A j \in (i + 1)..Len(pending) : pending[j].op # "getDocs"
       IN  /\ currentEntries' = IF newest THEN BuildEntries(pending[i].snapshot, NoEntries)
                                          ELSE currentEntries
           /\ viewingUserId' = IF newest THEN pending[i].userId ELSE viewingUserId
           /\ calendarContainer' =
                 IF newest
                 THEN renderCalendar(pending[i].userId, IsEditable(pending[i].userId),
                                     currentEntries')
                 ELSE calendarContainer
    /\ pending' = Remove(pending, i)
    /\ loadingSpinner' = showLoading(FALSE)
    /\ alertContainer' = IF pending[i].handler = "submit"
                         THEN showAlert("Entry saved successfully!", "", "success")
                         ELSE alertContainer
    /\ UNCHANGED <<call, download, entries, authUser, currentUser, loginSection, appSection,
                   userEmailSpan, userSelector, editModal, events>>

\* loadUserEntries continues after getDocs resolved: the mapping is built and
\* installed; displayCalendar renders it; the handler's finally hides the spinner.
LoadUserEntriesResume(i) ==
    /\ i \in 1..Len(pending)
    /\ pending[i].op = "getDocs"
    /\ pending[i].pc = "ready"
    /\ currentEntries' = BuildEntries(pending[i].snapshot, NoEntries)
    /\ viewingUserId' = pending[i].userId
    /\ calendarContainer' =
         renderCalendar(pending[i].userId, IsEditable(pending[i].userId), currentEntries')
    /\ pending' = Remove(pending, i)
    /\ loadingSpinner' = showLoading(FALSE)
    /\ alertContainer' = IF pending[i].handler = "submit"
                         THEN showAlert("Entry saved successfully!", "", "success")
                         ELSE alertContainer
    /\ UNCHANGED <<call, download, entries, authUser, currentUser, loginSection, appSection,
                   userEmailSpan, userSelector, editModal, events>>

\* ---------------------------------------------------------------- edits
\* app.js handleDayClick(date, entry): the click listener of an editable day cell,
\* with the entry the cell was rendered with.
HandleDayClick(date) ==
    /\ appSection = "block"
    /\ calendarContainer.rendered
    /\ calendarContainer.isEditable
    /\ events < MaxEvents
    /\ LET cells == calendarContainer.cells
           hasEntry == date \in DOMAIN cells
       IN  editModal' =
             [shown |-> TRUE,
              date |-> date,
              rating |-> NumberToString(IF hasEntry THEN RatingOr3(cells[date].rating) ELSE 3),
              note |-> IF hasEntry THEN NoteOrEmpty(cells[date].note) ELSE <<>>]
    /\ events' = events + 1
    /\ UNCHANGED <<call, download, alertContainer, entries, authUser, currentUser, currentEntries, viewingUserId, pending,
                   loginSection, appSection, userEmailSpan, loadingSpinner, userSelector,
                   calendarContainer>>

\* The document saveEntry writes for actor uid.
EntryData(uid, date, rating, note) ==
    [userId |-> uid, date |-> date, rating |-> parseInt(rating), note |-> NoteOrEmpty(note)]

\* Variant: the cache entry loses the note.
CacheEntry_NoNote(docId, rating, note) ==
    [id |-> docId, rating |-> parseInt(rating), note |-> <<>>]

\* The cache entry saveEntry installs after the write.
CacheEntry(docId, rating, note) ==
    [id |-> docId, rating |-> parseInt(rating), note |-> NoteOrEmpty(note)]

\* calendar.js saveEntry up to `await setDoc(...)`; loads is the history of the
\* loads that overlap the save.
SetDocRequest(uid, date, rating, note, loads) ==
    [op |-> "setDoc", uid |-> uid, date |-> date, rating |-> rating, note |-> note,
     docId |-> DocId(uid, date), data |-> EntryData(uid, date, rating, note), pc |-> "sent",
     loads |-> loads]

\* The user leaves an input of the modal as handleDayClick filled it.
Untouched == <<"untouched">>

\* What the user does with the rating and the note fields before submitting:
\* leave both, type a rating and a note, or clear both.
EditInputs == {<<Untouched, Untouched>>, <<<<"4">>, <<" ", "h", "i">>>>, <<<<>>, <<>>>>}

\* app.js handleEditSubmit up to `await saveEntry(date, rating, note)`, for an
\* authenticated actor, after the user typed typedRating and typedNote over what
\* handleDayClick put into the inputs (or left them untouched).
HandleEditSubmit(typedRating, typedNote) ==
    /\ editModal.shown
    /\ getCurrentUser # "null"
    /\ CanStart
    /\ editModal' = [editModal EXCEPT
                        !.rating = IF typedRating = Untouched THEN @ ELSE typedRating,
                        !.note = IF typedNote = Untouched THEN @ ELSE typedNote]
    /\ loadingSpinner' = showLoading(TRUE)
    /\ pending' = Append(pending, SetDocRequest(getCurrentUser, editModal.date,
                                                editModal'.rating, trim(editModal'.note),
                                                PendingLoads(pending)))
    /\ events' = events + 1
    /\ UNCHANGED <<call, download, alertContainer, entries, authUser, currentUser, currentEntries, viewingUserId,
                   loginSection, appSection, userEmailSpan, userSelector,
                   calendarContainer>>

\* handleEditSubmit with no actor: saveEntry throws 'Must be logged in to save
\* entries' before any storage call; the catch alerts, the finally hides the spinner.
HandleEditSubmitNotLoggedIn ==
    /\ editModal.shown
    /\ getCurrentUser = "null"
    /\ events < MaxEvents
    /\ loadingSpinner' = showLoading(FALSE)
    /\ events' = events + 1
    /\ alertContainer' = showAlert("Failed to save entry",
                                    "Must be logged in to save entries", "danger")
    /\ UNCHANGED <<call, download, entries, authUser, currentUser, currentEntries, viewingUserId, pending,
                   loginSection, appSection, userEmailSpan, userSelector,
                   calendarContainer, editModal>>

\* The storage service applies the write of a pending save.
SetDocRespond(i) ==
    /\ i \in 1..Len(pending)
    /\ pending[i].op = "setDoc"
    /\ pending[i].pc = "sent"
    /\ AllowWrite(authUser, pending[i].data)
    /\ entries' = setDoc(entries, pending[i].docId, pending[i].data)
    /\ pending' = [pending EXCEPT ![i].pc = "written"]
    /\ UNCHANGED <<call, download, alertContainer, authUser, currentUser, currentEntries, viewingUserId,
                   loginSection, appSection, userEmailSpan, loadingSpinner, userSelector,
                   calendarContainer, editModal, events>>

\* Variant: the cache is updated for the write that was rejected.
SetDocReject_CacheWritten(i) ==
    /\ i \in 1..Len(pending)
    /\ pending[i].op = "setDoc"
    /\ pending[i].pc = "sent"
    /\ pending' = Remove(pending, i)
    /\ currentEntries' =
         [k \in DOMAIN currentEntries \cup {pending[i].date} |->
             IF k = pending[i].date
             THEN CacheEntry(pending[i].docId, pending[i].rating, pending[i].note)
             ELSE currentEntries[k]]
    /\ loadingSpinner' = showLoading(FALSE)
    /\ alertContainer' = showAlert("Failed to save entry", "setDoc", "danger")
    /\ UNCHANGED <<call, download, entries, authUser, currentUser, viewingUserId,
                   loginSection, appSection, userEmailSpan, userSelector,
                   calendarContainer, editModal, events>>

\* setDoc rejects: saveEntry rethrows, handleEditSubmit alerts 'Failed to save
\* entry' and hides the spinner.
SetDocReject(i) ==
    /\ i \in 1..Len(pending)
    /\ pending[i].op = "setDoc"
    /\ pending[i].pc = "sent"
    /\ pending' = Remove(pending, i)
    /\ loadingSpinner' = showLoading(FALSE)
    /\ alertContainer' = showAlert("Failed to save entry", "setDoc", "danger")
    /\ UNCHANGED <<call, download, entries, authUser, currentUser, currentEntries, viewingUserId,
                   loginSection, appSection, userEmailSpan, userSelector,
                   calendarContainer, editModal, events>>

\* Variant: an entry that is already cached gets the new rating and note field by
\* field and keeps its id.
UpdateCache_FieldWise(cache, date, entry) ==
    [k \in DOMAIN cache \cup {date} |->
        IF k # date THEN cache[k]
        ELSE IF date \in DOMAIN cache
             THEN [cache[date] EXCEPT !.rating = entry.rating, !.note = entry.note]
             ELSE entry]

\* currentEntries[date] = {id, rating, note}
UpdateCache(cache, date, entry) ==
    [k \in DOMAIN cache \cup {date} |-> IF k = date THEN entry ELSE cache[k]]

\* saveEntry continues after setDoc resolved: the cache entry of the date is
\* replaced; handleEditSubmit hides the modal and calls
\* displayCalendar(getCurrentUser().uid), which throws when nobody is logged in
\* any more (alert, spinner hidden) and otherwise awaits the reload.
SaveEntryResume(i) ==
    /\ i \in 1..Len(pending)
    /\ pending[i].op = "setDoc"
    /\ pending[i].pc = "written"
    /\ currentEntries' = UpdateCache(currentEntries, pending[i].date,
                            CacheEntry(pending[i].docId, pending[i].rating, pending[i].note))
    /\ editModal' = [editModal EXCEPT !.shown = FALSE]
    /\ IF getCurrentUser = "null"
       THEN /\ pending' = Remove(pending, i)
            /\ alertContainer' = showAlert("Failed to save entry", "TypeError", "danger")
            /\ loadingSpinner' = showLoading(FALSE)
       ELSE /\ pending' = AwaitGetDocs(Remove(pending, i), getCurrentUser, "submit")
            /\ UNCHANGED <<loadingSpinner, alertContainer>>
    /\ UNCHANGED <<call, download, entries, authUser, currentUser, viewingUserId,
                   loginSection, appSection, userEmailSpan, userSelector,
                   calendarContainer, events>>

\* The 5000 ms timer of showAlert removes alert a.
AlertTimeout(a) ==
    /\ a \in alertContainer
    /\ alertContainer' = alertContainer \ {a}
    /\ UNCHANGED <<call, download, entries, authUser, currentUser, currentEntries, viewingUserId, pending,
                   loginSection, appSection, userEmailSpan, loadingSpinner, userSelector,
                   calendarContainer, editModal, events>>

\* ---------------------------------------------------------------- export
\* A text is a sequence of characters; a user id, a date or a key name stands in
\* it as one unit.

\* The value of a field that a document does not have.
Undefined == <<"undefined">>

\* String.prototype.includes, for one character.
Includes(s, c) == \E i \in 1..Len(s) : s[i] = c

\* note.replace(/"/g, '""')
RECURSIVE ReplaceQuotes(_)
ReplaceQuotes(s) ==
    IF s = <<>> THEN <<>>
    ELSE (IF Head(s) = "\"" THEN <<"\"", "\"">> ELSE <<Head(s)>>) \o ReplaceQuotes(Tail(s))

\* Variant: the note is wrapped in quotes only when it contains a comma.
EscapedNote_CommaOnly(note) ==
    IF Includes(note, ",") THEN <<"\"">> \o ReplaceQuotes(note) \o <<"\"">> ELSE note

\* exportCSV: escapedNote
EscapedNote(note) ==
    IF Includes(note, ",") \/ Includes(note, "\"")
    THEN <<"\"">> \o ReplaceQuotes(note) \o <<"\"">>
    ELSE note

\* `${entry.rating}`
RatingText(rating) == IF rating = NaN THEN <<"N", "a", "N">> ELSE NumberToString(rating)

\* exportCSV: the row of one entry.
CSVRow(entry) ==
    <<entry.userId, ",", entry.date, ",">> \o RatingText(entry.rating) \o <<",">>
        \o EscapedNote(IF entry.note = Undefined THEN <<>> ELSE NoteOrEmpty(entry.note))

CSVHeader == <<"userId", ",", "date", ",", "rating", ",", "note">>

\* Array.prototype.join(sep) on texts; sep is a text.
RECURSIVE Join(_, _)
Join(lines, sep) ==
    IF lines = <<>> THEN <<>>
    ELSE IF Len(lines) = 1 THEN lines[1]
    ELSE lines[1] \o sep \o Join(Tail(lines), sep)

\* exportCSV: [header, ...rows].join('\n')
CSVText(list) == Join(<<CSVHeader>> \o [k \in 1..Len(list) |-> CSVRow(list[k])], <<"\n">>)

\* getAllEntries: the forEach over the snapshot of query(entriesRef, orderBy('date')).
AllEntries(snapshot) ==
    [k \in 1..Len(snapshot) |->
        [userId |-> snapshot[k].data.userId, date |-> snapshot[k].data.date,
         rating |-> snapshot[k].data.rating, note |-> snapshot[k].data.note]]

\* JSON.stringify of a string: QuoteJSONString.
RECURSIVE QuoteChars(_)
QuoteChars(s) ==
    IF s = <<>> THEN <<>>
    ELSE (IF Head(s) = "\"" THEN <<"\\", "\"">>
          ELSE IF Head(s) = "\\" THEN <<"\\", "\\">>
          ELSE IF Head(s) = "\n" THEN <<"\\", "n">>
          ELSE IF Head(s) = "\t" THEN <<"\\", "t">>
          ELSE <<Head(s)>>) \o QuoteChars(Tail(s))

QuoteJSONString(s) == <<"\"">> \o QuoteChars(s) \o <<"\"">>

\* JSON.stringify of a number: a number that is not finite is written as null.
JSONNumber(n) == IF n = NaN THEN <<"n", "u", "l", "l">> ELSE NumberToString(n)

Indent(n) == [k \in 1..n |-> " "]

\* JSON.stringify of one entry at indentation 2: a member whose value is
\* undefined is left out.
JSONObject(entry) ==
    LET member(key, text) == Indent(4) \o <<"\"", key, "\"", ":", " ">> \o text
        members == <<member("userId", QuoteJSONString(<<entry.userId>>)),
                     member("date", QuoteJSONString(<<entry.date>>)),
                     member("rating", JSONNumber(entry.rating))>>
                   \o (IF entry.note = Undefined THEN <<>>
                       ELSE <<member("note", QuoteJSONString(entry.note))>>)
        RECURSIVE lines(_)
        lines(k) == IF k > Len(members) THEN <<>>
                    ELSE members[k] \o (IF k < Len(members) THEN <<",">> ELSE <<>>)
                         \o <<"\n">> \o lines(k + 1)
    IN  Indent(2) \o <<"{", "\n">> \o lines(1) \o Indent(2) \o <<"}">>

\* JSON.stringify(entries, null, 2)
JSONText(list) ==
    IF list = <<>> THEN <<"[", "]">>
    ELSE <<"[", "\n">> \o Join([k \in 1..Len(list) |-> JSONObject(list[k])], <<",", "\n">>)
         \o <<"\n", "]">>

\* The values JSON.parse builds.
JsonNull == [type |-> "null"]
JsonNumber(n) == [type |-> "number", n |-> n]
JsonString(s) == [type |-> "string", s |-> s]
JsUndefined == [type |-> "undefined"]

\* JSON.parse: white space between tokens is skipped.
RECURSIVE SkipWhite(_, _)
SkipWhite(t, p) == IF p <= Len(t) /\ IsSpace(t[p]) THEN SkipWhite(t, p + 1) ELSE p

\* JSON.parse: the characters of a string literal from position p, after the
\* opening quote, up to the closing quote.
RECURSIVE ParseChars(_, _, _)
ParseChars(t, p, acc) ==
    IF t[p] = "\"" THEN [v |-> JsonString(acc), p |-> p + 1]
    ELSE IF t[p] = "\\"
         THEN ParseChars(t, p + 2,
                  Append(acc, IF t[p + 1] = "n" THEN "\n"
                              ELSE IF t[p + 1] = "t" THEN "\t" ELSE t[p + 1]))
         ELSE ParseChars(t, p + 1, Append(acc, t[p]))

\* JSON.parse: the end of a number literal that begins at p.
RECURSIVE NumberEnd(_, _)
NumberEnd(t, p) ==
    IF p <= Len(t) /\ (IsDigit(t[p]) \/ t[p] = "-") THEN NumberEnd(t, p + 1) ELSE p

\* JSON.parse: a string, null or a number at position p.
ParseValue(t, p) ==
    IF t[p] = "\"" THEN ParseChars(t, p + 1, <<>>)
    ELSE IF t[p] = "n" THEN [v |-> JsonNull, p |-> p + 4]
    ELSE LET e == NumberEnd(t, p)
         IN  [v |-> JsonNumber(parseInt(SubSeq(t, p, e - 1))), p |-> e]

\* JSON.parse: the members of an object from position p (after `{` or `,`) up to
\* the closing brace.
RECURSIVE ParseMembers(_, _, _)
ParseMembers(t, p, obj) ==
    LET k == SkipWhite(t, p)
    IN  IF t[k] = "}" THEN [v |-> obj, p |-> k + 1]
        ELSE IF t[k] = "," THEN ParseMembers(t, k + 1, obj)
        ELSE LET key == ParseChars(t, k + 1, <<>>)
                 colon == SkipWhite(t, key.p)
                 val == ParseValue(t, SkipWhite(t, colon + 1))
                 name == key.v.s[1]
             IN  ParseMembers(t, val.p,
                     [x \in DOMAIN obj \cup {name} |-> IF x = name THEN val.v ELSE obj[x]])

\* JSON.parse: the elements of an array of objects from position p up to the
\* closing bracket.
RECURSIVE ParseElements(_, _, _)
ParseElements(t, p, list) ==
    LET k == SkipWhite(t, p)
    IN  IF t[k] = "]" THEN list
        ELSE IF t[k] = "," THEN ParseElements(t, k + 1, list)
        ELSE LET obj == ParseMembers(t, k + 1, [x \in {} |-> JsUndefined])
             IN  ParseElements(t, obj.p, Append(list, obj.v))

\* JSON.parse of the text of an array of objects.
JSONParse(t) == ParseElements(t, SkipWhite(t, 1) + 1, <<>>)

\* downloadFile(content, filename, mimeType)
downloadFile(content, filename, mimeType) ==
    [filename |-> filename, mimeType |-> mimeType, content |-> content]

\* app.js handleExportCSV / handleExportJSON up to the `await getDocs(q)` of
\* getAllEntries.
HandleExport(format) ==
    /\ appSection = "block"
    /\ CanStart
    /\ loadingSpinner' = showLoading(TRUE)
    /\ pending' = Append(pending, [op |-> "getAllEntries", format |-> format,
                                    pc |-> "sent", snapshot |-> <<>>])
    /\ events' = events + 1
    /\ UNCHANGED <<call, download, alertContainer, entries, authUser, currentUser,
                   currentEntries, viewingUserId, loginSection, appSection, userEmailSpan,
                   userSelector, calendarContainer, editModal>>

HandleExportCSV == HandleExport("csv")

HandleExportJSON == HandleExport("json")

\* The storage service runs the query of a pending export.
GetAllEntriesRespond(i) ==
    /\ i \in 1..Len(pending)
    /\ pending[i].op = "getAllEntries"
    /\ pending[i].pc = "sent"
    /\ AllowRead(authUser)
    /\ pending' = [pending EXCEPT ![i].pc = "ready",
                                  ![i].snapshot = OrderByDate(entries, DOMAIN entries)]
    /\ UNCHANGED <<call, download, alertContainer, entries, authUser, currentUser,
                   currentEntries, viewingUserId, loginSection, appSection, userEmailSpan,
                   loadingSpinner, userSelector, calendarContainer, editModal, events>>

\* getDocs rejects: getAllEntries and exportCSV/exportJSON rethrow, the handler
\* alerts 'Export failed' and hides the spinner.
GetAllEntriesReject(i) ==
    /\ i \in 1..Len(pending)
    /\ pending[i].op = "getAllEntries"
    /\ pending[i].pc = "sent"
    /\ pending' = Remove(pending, i)
    /\ loadingSpinner' = showLoading(FALSE)
    /\ alertContainer' = showAlert("Export failed", "getDocs", "danger")
    /\ UNCHANGED <<call, download, entries, authUser, currentUser, currentEntries,
                   viewingUserId, loginSection, appSection, userEmailSpan, userSelector,
                   calendarContainer, editModal, events>>

\* exportCSV / exportJSON continue after getAllEntries resolved: the text is
\* built and downloaded; the handler alerts the success and hides the spinner.
ExportResume(i) ==
    /\ i \in 1..Len(pending)
    /\ pending[i].op = "getAllEntries"
    /\ pending[i].pc = "ready"
    /\ download' =
         IF pending[i].format = "csv"
         THEN downloadFile(CSVText(AllEntries(pending[i].snapshot)),
                           "daydicated-2026.csv", "text/csv")
         ELSE downloadFile(JSONText(AllEntries(pending[i].snapshot)),
                           "daydicated-2026.json", "application/json")
    /\ pending' = Remove(pending, i)
    /\ loadingSpinner' = showLoading(FALSE)
    /\ alertContainer' =
         IF pending[i].format = "csv"
         THEN showAlert("CSV exported successfully!", "", "success")
         ELSE showAlert("JSON exported successfully!", "", "success")
    /\ UNCHANGED <<call, entries, authUser, currentUser, currentEntries, viewingUserId,
                   loginSection, appSection, userEmailSpan, userSelector,
                   calendarContainer, editModal, events>>

\* ---------------------------------------------------------------- system
Next ==
    \/ \E u \in Users : HandleLogin(u)
    \/ \E i \in 1..MaxPending : SignInResolve(i)
    \/ \E i \in 1..MaxPending : SignInReject(i)
    \/ HandleLogout
    \/ \E i \in 1..MaxPending : SignOutResolve(i)
    \/ \E i \in 1..MaxPending : SignOutReject(i)
    \/ \E i \in 1..MaxPending, ok \in BOOLEAN : LoadUserSelectorResume(i, ok)
    \/ \E v \in Users : HandleUserChange(v)
    \/ \E i \in 1..MaxPending : GetDocsRespond(i)
    \/ \E i \in 1..MaxPending : GetDocsReject(i)
    \/ \E i \in 1..MaxPending : LoadUserEntriesResume(i)
    \/ \E d \in Dates : HandleDayClick(d)
    \/ \E p \in EditInputs : HandleEditSubmit(p[1], p[2])
    \/ HandleEditSubmitNotLoggedIn
    \/ \E i \in 1..MaxPending : SetDocRespond(i)
    \/ \E i \in 1..MaxPending : SetDocReject(i)
    \/ \E i \in 1..MaxPending : SaveEntryResume(i)
    \/ HandleExportCSV
    \/ HandleExportJSON
    \/ \E i \in 1..MaxPending : GetAllEntriesRespond(i)
    \/ \E i \in 1..MaxPending : GetAllEntriesReject(i)
    \/ \E i \in 1..MaxPending : ExportResume(i)
    \/ \E a \in Alerts : AlertTimeout(a)

Spec == Init /\ [][Next]_vars

\* ---------------------------------------------------------------- calendar grid
\* calendar.js: const YEAR = 2026
YEAR == 2026

\* The years and months getDaysInMonth is called with.
Years == {0, 1, 4, 99, 100, 1900, 2000, 2024, 2026, 2100}
Months == 0..11

\* ECMAScript DayFromYear(y): the day number, counted from 1970-01-01, of January 1
\* of year y.
DayFromYear(y) ==
    365 * (y - 1970) + ((y - 1969) \div 4) - ((y - 1901) \div 100) + ((y - 1601) \div 400)

\* ECMAScript DaysInYear(y).
DaysInYear(y) == DayFromYear(y + 1) - DayFromYear(y)

\* The lengths of the months of a year of that many days.
MonthLengths(daysInYear) ==
    <<31, daysInYear - 337, 31, 30, 31, 30, 31, 31, 30, 31, 30, 31>>

\* The days of year y before its month mn (0-indexed).
RECURSIVE DaysBeforeMonth(_, _)
DaysBeforeMonth(y, mn) ==
    IF mn = 0 THEN 0
    ELSE DaysBeforeMonth(y, mn - 1) + MonthLengths(DaysInYear(y))[mn]

\* ECMAScript MakeDay(year, month, date): months outside 0..11 carry into the
\* year, dates outside the month carry into the neighbouring months.
MakeDay(year, month, date) ==
    LET ym == year + (month \div 12)
        mn == month % 12
    IN  DayFromYear(ym) + DaysBeforeMonth(ym, mn) + date - 1

\* new Date(year, month, date): a year from 0 to 99 denotes 1900 + year.
NewDate(year, month, date) ==
    MakeDay(IF year >= 0 /\ year <= 99 THEN 1900 + year ELSE year, month, date)

\* ECMAScript YearFromTime, on day numbers.
YearFromDay(d) ==
    LET guess == 1970 + (d \div 365)
    IN  CHOOSE y \in (guess - 3)..(guess + 3) : DayFromYear(y) <= d /\ d < DayFromYear(y + 1)

\* ECMAScript MonthFromTime, on day numbers.
MonthFromDay(d) ==
    LET y == YearFromDay(d)
    IN  CHOOSE mn \in Months :
            /\ DayFromYear(y) + DaysBeforeMonth(y, mn) <= d
            /\ d < DayFromYear(y) + DaysBeforeMonth(y, mn) + MonthLengths(DaysInYear(y))[mn + 1]

\* Date.prototype.getDate()
getDate(d) ==
    LET y == YearFromDay(d)
    IN  d - (DayFromYear(y) + DaysBeforeMonth(y, MonthFromDay(d))) + 1

\* Date.prototype.getDay(): 1970-01-01 was a Thursday.
getDay(d) == (d + 4) % 7

\* Variant: the day before the first of the month itself.
getDaysInMonth_SameMonth(month, year) == getDate(NewDate(year, month, 0))

\* calendar.js getDaysInMonth: new Date(year, month + 1, 0).getDate()
getDaysInMonth(month, year) == getDate(NewDate(year, month + 1, 0))

\* calendar.js getFirstDayOfMonth: new Date(year, month, 1).getDay()
getFirstDayOfMonth(month, year) == getDay(NewDate(year, month, 1))

\* A cell of a week row: an empty column, or the cell of a day with its number
\* and whether it got the click listener.
EmptyCell == [kind |-> "empty", day |-> 0, editable |-> FALSE]
DayCell(day, isEditable) == [kind |-> "day", day |-> day, editable |-> isEditable]

\* The empty cells before the first day.
RECURSIVE LeadingCells(_)
LeadingCells(n) == IF n = 0 THEN <<>> ELSE Append(LeadingCells(n - 1), EmptyCell)

\* Variant: the week is closed on every seventh day of the month, whatever the
\* weekday of the first.
RECURSIVE DayCells_IgnoreOffset(_, _, _, _, _, _)
DayCells_IgnoreOffset(day, daysInMonth, firstDay, isEditable, currentWeek, body) ==
    IF day > daysInMonth THEN [currentWeek |-> currentWeek, body |-> body]
    ELSE LET week == Append(currentWeek, DayCell(day, isEditable))
         IN  IF day % 7 = 0 /\ day < daysInMonth
             THEN DayCells_IgnoreOffset(day + 1, daysInMonth, firstDay, isEditable,
                                        <<>>, Append(body, week))
             ELSE DayCells_IgnoreOffset(day + 1, daysInMonth, firstDay, isEditable, week, body)

\* The day loop of renderMonth: the cell of each day is appended to the current
\* week; a week that ends on a Saturday before the last day is appended to the
\* body and a new week begins.
RECURSIVE DayCells(_, _, _, _, _, _)
DayCells(day, daysInMonth, firstDay, isEditable, currentWeek, body) ==
    IF day > daysInMonth THEN [currentWeek |-> currentWeek, body |-> body]
    ELSE LET week == Append(currentWeek, DayCell(day, isEditable))
         IN  IF (firstDay + day) % 7 = 0 /\ day < daysInMonth
             THEN DayCells(day + 1, daysInMonth, firstDay, isEditable, <<>>, Append(body, week))
             ELSE DayCells(day + 1, daysInMonth, firstDay, isEditable, week, body)

\* `for (i = 0; i < remainingCells && remainingCells < 7; i++)` appends an empty cell.
RECURSIVE RemainingCells(_, _, _)
RemainingCells(week, i, remainingCells) ==
    IF i < remainingCells /\ remainingCells < 7
    THEN RemainingCells(Append(week, EmptyCell), i + 1, remainingCells)
    ELSE week

\* calendar.js renderMonth: the week rows appended to the body of the month card.
renderMonth(month, isEditable) ==
    LET daysInMonth == getDaysInMonth(month, YEAR)
        firstDay == getFirstDayOfMonth(month, YEAR)
        loop == DayCells(1, daysInMonth, firstDay, isEditable, LeadingCells(firstDay), <<>>)
        lastWeek == RemainingCells(loop.currentWeek, 0, 7 - Len(loop.currentWeek))
    IN  IF Len(lastWeek) > 0 THEN Append(loop.body, lastWeek) ELSE loop.body

\* A call getDaysInMonth(month, year) about to be made.
DaysCalls == [fn : {"getDaysInMonth"}, month : Months, year : Years, done : {FALSE},
              result : {0}]

\* A call renderMonth(month, container, isEditable, onDayClick) about to be made.
RenderCalls == [fn : {"renderMonth"}, month : Months, isEditable : BOOLEAN, done : {FALSE},
                body : {<<>>}]

\* The application as constructed, with one call of a calendar helper at hand.
InitCalendar ==
    /\ entries = NoEntries
    /\ authUser = "null"
    /\ currentUser = "null"
    /\ currentEntries = NoEntries
    /\ viewingUserId = "null"
    /\ pending = <<>>
    /\ loginSection = "block"
    /\ appSection = "none"
    /\ userEmailSpan = ""
    /\ loadingSpinner = "none"
    /\ userSelector = {}
    /\ calendarContainer = EmptyContainer
    /\ editModal = [shown |-> FALSE, date |-> "", rating |-> <<>>, note |-> <<>>]
    /\ alertContainer = {}
    /\ events = 0
    /\ download = NoDownload
    /\ call \in DaysCalls \cup RenderCalls

\* The call getDaysInMonth(month, year) returns.
CallGetDaysInMonth ==
    /\ call.fn = "getDaysInMonth"
    /\ ~call.done
    /\ call' = [call EXCEPT !.done = TRUE, !.result = getDaysInMonth(call.month, call.year)]
    /\ UNCHANGED <<entries, authUser, currentUser, currentEntries, viewingUserId, pending,
                   loginSection, appSection, userEmailSpan, loadingSpinner, userSelector,
                   calendarContainer, editModal, alertContainer, events, download>>

\* The call renderMonth(month, ...) returns.
CallRenderMonth ==
    /\ call.fn = "renderMonth"
    /\ ~call.done
    /\ call' = [call EXCEPT !.done = TRUE, !.body = renderMonth(call.month, call.isEditable)]
    /\ UNCHANGED <<entries, authUser, currentUser, currentEntries, viewingUserId, pending,
                   loginSection, appSection, userEmailSpan, loadingSpinner, userSelector,
                   calendarContainer, editModal, alertContainer, events, download>>

NextCalendar == CallGetDaysInMonth \/ CallRenderMonth

SpecCalendar == InitCalendar /\ [][NextCalendar]_vars

\* ---------------------------------------------------------------- export runs
\* The notes that documents written by earlier sessions or other clients hold.
NoteSamples ==
    {<<>>, Undefined, <<"h", "i">>, <<"a", ",", "b">>, <<"a", "\"", "b", "\"">>,
     <<"\"", ",">>, <<"a", "\n", "b">>}

\* The collections that are exported: u1's entry of the first date with any of the
\* notes, u2's entry of the same date with a rating that may be NaN, and u1's
\* entry of the second date; each may be absent.
ExportCollections ==
    LET first == {<<>>} \cup
                 {<<[userId |-> "u1", date |-> DateSeq[1], rating |-> 5, note |-> n]>> :
                     n \in NoteSamples}
        second == {<<>>} \cup
                  {<<[userId |-> "u2", date |-> DateSeq[1], rating |-> r,
                      note |-> <<"o", "k">>]>> : r \in {3, NaN}}
        third == {<<>>, <<[userId |-> "u1", date |-> DateSeq[2], rating |-> 1,
                           note |-> <<"a", ",", "b">>]>>}
        docs == {a \o b \o c : a \in first, b \in second, c \in third}
    IN  {[id \in {DocId(ds[k].userId, ds[k].date) : k \in 1..Len(ds)} |->
            LET k == CHOOSE k \in 1..Len(ds) : DocId(ds[k].userId, ds[k].date) = id
            IN  ds[k]] : ds \in docs}

\* u1 is logged in and looks at the own calendar; nothing is pending.
InitExport ==
    /\ entries \in ExportCollections
    /\ authUser = "u1"
    /\ currentUser = "u1"
    /\ currentEntries = BuildEntries(QueryUserEntries(entries, "u1"), NoEntries)
    /\ viewingUserId = "u1"
    /\ pending = <<>>
    /\ loginSection = "none"
    /\ appSection = "block"
    /\ userEmailSpan = "u1"
    /\ loadingSpinner = "none"
    /\ userSelector = {"u1"} \cup AllUserIds(entries)
    /\ calendarContainer = renderCalendar("u1", TRUE, currentEntries)
    /\ editModal = [shown |-> FALSE, date |-> "", rating |-> <<>>, note |-> <<>>]
    /\ alertContainer = {}
    /\ events = 0
    /\ download = NoDownload
    /\ call = NoCall

NextExport ==
    \/ HandleExportCSV
    \/ HandleExportJSON
    \/ \E i \in 1..MaxPending : GetAllEntriesRespond(i)
    \/ \E i \in 1..MaxPending : GetAllEntriesReject(i)
    \/ \E i \in 1..MaxPending : ExportResume(i)
    \/ \E a \in Alerts : AlertTimeout(a)

SpecExport == InitExport /\ [][NextExport]_vars

\* ---------------------------------------------------------------- steps
\* The step is the continuation of the load pending[i] (LoadUserEntriesResume).
LoadResumes(i) ==
    /\ i \in 1..Len(pending)
    /\ pending[i].op = "getDocs"
    /\ pending[i].pc = "ready"
    /\ pending' = Remove(pending, i)

\* The step is the rejection of the query of the load pending[i] (GetDocsReject).
LoadFails(i) ==
    /\ i \in 1..Len(pending)
    /\ pending[i].op = "getDocs"
    /\ pending[i].pc = "sent"
    /\ pending' = Remove(pending, i)

\* The step is the storage service answering the query of pending[i].
QueryAnswered(i) ==
    /\ i \in 1..Len(pending)
    /\ pending[i].op = "getDocs"
    /\ pending[i].pc = "sent"
    /\ Len(pending') = Len(pending)
    /\ pending' = [pending EXCEPT ![i] = pending'[i]]
    /\ pending'[i].op = "getDocs"
    /\ pending'[i].pc = "ready"
    /\ pending'[i].userId = pending[i].userId

\* The step is the storage service applying the write of pending[i].
WriteApplied(i) ==
    /\ i \in 1..Len(pending)
    /\ pending[i].op = "setDoc"
    /\ pending[i].pc = "sent"
    /\ Len(pending') = Len(pending)
    /\ pending' = [pending EXCEPT ![i].pc = "written"]

\* The step is the rejection of the write of the save pending[i] (SetDocReject).
SaveFails(i) ==
    /\ i \in 1..Len(pending)
    /\ pending[i].op = "setDoc"
    /\ pending[i].pc = "sent"
    /\ pending' = Remove(pending, i)

\* The operations of q without the history the saves carry.
Operations(q) ==
    [k \in 1..Len(q) |-> IF q[k].op = "setDoc" THEN [q[k] EXCEPT !.loads = {}] ELSE q[k]]

\* The step is the continuation of the save pending[i] (SaveEntryResume): the
\* save is gone, and the reload of handleEditSubmit may have taken its place.
SaveResumes(i) ==
    /\ i \in 1..Len(pending)
    /\ pending[i].op = "setDoc"
    /\ pending[i].pc = "written"
    /\ \/ pending' = Remove(pending, i)
       \/ /\ Len(pending') = Len(pending)
          /\ Operations(SubSeq(pending', 1, Len(pending') - 1)) = Operations(Remove(pending, i))
          /\ pending'[Len(pending')].op = "getDocs"
          /\ pending'[Len(pending')].handler = "submit"
          /\ pending'[Len(pending')].pc = "sent"

NotLoggedInAlert == [type |-> "danger", message |-> "Failed to save entry",
                     error |-> "Must be logged in to save entries"]

\* The step is a submit of the edit form with nobody logged in
\* (HandleEditSubmitNotLoggedIn).
SubmitNotLoggedIn ==
    /\ editModal.shown
    /\ getCurrentUser = "null"
    /\ events' = events + 1
    /\ loadingSpinner' = "none"
    /\ NotLoggedInAlert \in alertContainer'

\* The step opens the edit modal, or moves it to another date (HandleDayClick).
ModalOpens == editModal'.shown /\ (~editModal.shown \/ editModal'.date # editModal.date)

\* The documents of owner that the collection st holds.
StoredFor(st, owner) ==
    {[id |-> id, data |-> st[id]] : id \in {k \in DOMAIN st : st[k].userId = owner}}

\* cache is exactly the documents docs, keyed by their date, each with its id,
\* rating and note.
IsMappingOf(cache, docs) ==
    /\ DOMAIN cache = {doc.data.date : doc \in docs}
    /\ \A doc \in docs :
          cache[doc.data.date] =
              [id |-> doc.id, rating |-> doc.data.rating, note |-> doc.data.note]

Range(seq) == {seq[k] : k \in 1..Len(seq)}

\* The cache holds an entry of owner uid under date.
CachedFor(cache, date, uid) == date \in DOMAIN cache /\ cache[date].id = DocId(uid, date)

\* ---------------------------------------------------------------- C1
\* C1: in every reachable state every entry of the cache belongs to the owner
\* recorded as the viewing user.
C1_CacheBelongsToViewingUser ==
    \A d \in DOMAIN currentEntries :
        viewingUserId # "null" /\ CachedFor(currentEntries, d, viewingUserId)

\* ---------------------------------------------------------------- C2
\* C2: when a save by actor u1 overlapped a load for another owner u2, the mapping
\* the load produces holds only documents of u2, and the cache does not hold u1's
\* saved entry while u2 is the viewing user.
C2_ConcurrentLoadNeverSeesSave ==
    [][ /\ \A i \in 1..Len(pending) :
              QueryAnswered(i) =>
                  \A k \in 1..Len(pending'[i].snapshot) :
                      pending'[i].snapshot[k].data.userId = pending[i].userId
        /\ \A i \in 1..Len(pending) :
              SaveResumes(i) =>
                  \A u2 \in pending[i].loads \ {pending[i].uid} :
                      viewingUserId' = u2 =>
                          ~CachedFor(currentEntries', pending[i].date, pending[i].uid)
      ]_vars

\* ---------------------------------------------------------------- C3
\* C3: the query of a load returns exactly the stored documents of ownerId, and
\* when the load continues the cache is exactly those documents keyed by date,
\* with their rating and note and no entry of another owner, and viewingUserId is
\* ownerId.
C3_LoadInstallsOwnersEntries ==
    [][ \A i \in 1..Len(pending) :
          /\ QueryAnswered(i) =>
               /\ Range(pending'[i].snapshot) = StoredFor(entries, pending[i].userId)
               /\ Len(pending'[i].snapshot) = Cardinality(StoredFor(entries, pending[i].userId))
          /\ LoadResumes(i) =>
               /\ IsMappingOf(currentEntries', Range(pending[i].snapshot))
               /\ \A d \in DOMAIN currentEntries' :
                      CachedFor(currentEntries', d, pending[i].userId)
               /\ viewingUserId' = pending[i].userId
      ]_vars

\* A load installed the entries of its owner while the collection also holds
\* documents of another owner.
C3_Witness ==
    /\ viewingUserId # "null"
    /\ currentEntries # NoEntries
    /\ IsMappingOf(currentEntries, StoredFor(entries, viewingUserId))
    /\ calendarContainer.rendered
    /\ calendarContainer.cells = currentEntries
    /\ \E id \in DOMAIN entries : entries[id].userId # viewingUserId

\* ---------------------------------------------------------------- C4
\* C4: when the query of a load fails, the cache and the viewing owner are what
\* they were before.
C4_FailedLoadKeepsCache ==
    [][ \A i \in 1..Len(pending) :
          LoadFails(i) => UNCHANGED <<currentEntries, viewingUserId>> ]_vars

\* A user switch failed while the cache held the entries of the earlier load.
C4_Witness ==
    /\ [type |-> "danger", message |-> "Failed to load calendar", error |-> "getDocs"]
           \in alertContainer
    /\ viewingUserId # "null"
    /\ currentEntries # NoEntries
    /\ pending = <<>>

\* ---------------------------------------------------------------- C5
\* The number n is the one the decimal numeral text denotes, when text is one.
RatingDenotes(text, n) == \A m \in 0..99 : NumberToString(m) = text => n = m

\* C5: the write of a save stores, under the actor's id and the date, the supplied
\* rating as the integer it denotes and the supplied note; when the save
\* continues, the cache entry of the date holds that rating and note at once.
C5_SaveReflectedInCache ==
    [][ \A i \in 1..Len(pending) :
          /\ WriteApplied(i) =>
               /\ pending[i].docId \in DOMAIN entries'
               /\ entries'[pending[i].docId].userId = pending[i].uid
               /\ entries'[pending[i].docId].date = pending[i].date
               /\ entries'[pending[i].docId].note = pending[i].note
               /\ RatingDenotes(pending[i].rating, entries'[pending[i].docId].rating)
          /\ SaveResumes(i) =>
               /\ pending[i].date \in DOMAIN currentEntries'
               /\ currentEntries'[pending[i].date].note = pending[i].note
               /\ RatingDenotes(pending[i].rating, currentEntries'[pending[i].date].rating)
               /\ currentEntries'[pending[i].date].rating = pending[i].data.rating
      ]_vars

\* The cache holds a typed rating 4 and note "hi" that storage holds too, before
\* any reload rendered it.
C5_Witness ==
    \E d \in DOMAIN currentEntries :
        /\ currentEntries[d].rating = 4
        /\ currentEntries[d].note = <<"h", "i">>
        /\ currentEntries[d].id \in DOMAIN entries
        /\ entries[currentEntries[d].id].rating = 4
        /\ entries[currentEntries[d].id].note = <<"h", "i">>
        /\ calendarContainer.cells # currentEntries
        /\ \E i \in 1..Len(pending) : pending[i].op = "getDocs" /\ pending[i].handler = "submit"

\* ---------------------------------------------------------------- C6
\* C6: a save that fails because nobody is logged in attempts no write and leaves
\* storage, cache and viewing owner as they were; a save whose write fails leaves
\* the cache and the viewing owner as they were.
C6_FailedSaveKeepsCache ==
    [][ /\ SubmitNotLoggedIn => UNCHANGED <<entries, pending, currentEntries, viewingUserId>>
        /\ \A i \in 1..Len(pending) :
              SaveFails(i) => UNCHANGED <<currentEntries, viewingUserId>>
      ]_vars

\* A write failed: its alert is shown, the modal is still open and the cache
\* holds what the last load installed.
C6_Witness ==
    /\ [type |-> "danger", message |-> "Failed to save entry", error |-> "setDoc"]
           \in alertContainer
    /\ editModal.shown
    /\ viewingUserId # "null"
    /\ currentEntries # NoEntries
    /\ currentEntries = calendarContainer.cells

\* ---------------------------------------------------------------- C7
\* C7: storage holds at most one entry per (owner, date); a write replaces the
\* entry of its own (actor, date) and leaves every other entry as it was.
C7_OneEntryPerOwnerAndDate ==
    /\ [](\A k1, k2 \in DOMAIN entries :
             entries[k1].userId = entries[k2].userId /\ entries[k1].date = entries[k2].date
                 => k1 = k2)
    /\ [][ \A i \in 1..Len(pending) :
             WriteApplied(i) =>
                 /\ \A k \in DOMAIN entries :
                        (entries[k].userId # pending[i].uid \/ entries[k].date # pending[i].date)
                            => k \in DOMAIN entries' /\ entries'[k] = entries[k]
                 /\ Cardinality({k \in DOMAIN entries' :
                        entries'[k].userId = pending[i].uid /\ entries'[k].date = pending[i].date}) = 1
         ]_vars

\* u1 overwrote its entry of the first date; the entry of u2 for the second date
\* is untouched and no further document appeared.
C7_Witness ==
    /\ DocId("u1", DateSeq[1]) \in DOMAIN entries
    /\ entries[DocId("u1", DateSeq[1])] # SeedDoc("u1", DateSeq[1])
    /\ DocId("u2", DateSeq[2]) \in DOMAIN entries
    /\ entries[DocId("u2", DateSeq[2])] = SeedDoc("u2", DateSeq[2])
    /\ Cardinality(DOMAIN entries) = 2

C9_CacheNeverTorn ==
    [][ (currentEntries' # currentEntries \/ viewingUserId' # viewingUserId) =>
          \E i \in 1..Len(pending) :
            \/ /\ LoadResumes(i)
               /\ IsMappingOf(currentEntries', Range(pending[i].snapshot))
               /\ viewingUserId' = pending[i].userId
            \/ /\ SaveResumes(i)
               /\ viewingUserId' = viewingUserId
               /\ DOMAIN currentEntries' = DOMAIN currentEntries \cup {pending[i].date}
               /\ \A d \in DOMAIN currentEntries \ {pending[i].date} :
                      currentEntries'[d] = currentEntries[d]
               /\ currentEntries'[pending[i].date] =
                      [id |-> pending[i].docId, rating |-> pending[i].data.rating,
                       note |-> pending[i].data.note]
      ]_vars

\* A save replaced the cached entry of a date that another owner's load had
\* installed, while a later load is suspended with a different result.
C9_Witness ==
    /\ \E d \in DOMAIN currentEntries :
           /\ d \in DOMAIN calendarContainer.cells
           /\ calendarContainer.cells[d].id # currentEntries[d].id
    /\ \E i \in 1..Len(pending) :
           /\ pending[i].op = "getDocs"
           /\ pending[i].handler = "submit"

\* ---------------------------------------------------------------- C10
\* C10: a calendar is rendered editable exactly when the logged-in actor is the
\* user it is rendered for, nothing else makes the container editable, and the
\* edit modal is opened only from a container rendered editable.
C10_OnlyOwnCalendarEditable ==
    [][ /\ \A i \in 1..Len(pending) :
              LoadResumes(i) =>
                  /\ calendarContainer'.rendered
                  /\ calendarContainer'.userId = pending[i].userId
                  /\ calendarContainer'.isEditable =
                         (getCurrentUser # "null" /\ getCurrentUser = pending[i].userId)
        /\ (calendarContainer' # calendarContainer /\ calendarContainer'.isEditable) =>
              \E i \in 1..Len(pending) : LoadResumes(i)
        /\ ModalOpens => calendarContainer.rendered /\ calendarContainer.isEditable
      ]_vars

\* u1 is logged in and the calendar of u2, with an entry, is rendered read-only.
C10_Witness ==
    /\ getCurrentUser = "u1"
    /\ calendarContainer.rendered
    /\ calendarContainer.userId = "u2"
    /\ ~calendarContainer.isEditable
    /\ calendarContainer.cells # NoEntries
    /\ ~editModal.shown

\* ---------------------------------------------------------------- C11
\* The Gregorian calendar: the leap years and the lengths of the months.
GregorianLeap(y) == y % 4 = 0 /\ (y % 100 # 0 \/ y % 400 = 0)

GregorianDays(m, y) ==
    IF m = 1 THEN (IF GregorianLeap(y) THEN 29 ELSE 28)
    ELSE IF m \in {3, 5, 8, 10} THEN 30 ELSE 31

\* C11 as stated: for every year and every month index 0..11, getDaysInMonth
\* returns the Gregorian number of days of that month, February having 29 days
\* exactly in the years divisible by 4 and (not by 100 or by 400).
C11_DaysInMonthGregorian ==
    (call.fn = "getDaysInMonth" /\ call.done)
        => call.result = GregorianDays(call.month, call.year)

\* C11 amended: for every year from 1 on and every month index 0..11,
\* getDaysInMonth returns the Gregorian number of days of that month.
C11_DaysInMonthGregorianFromYear1 ==
    (call.fn = "getDaysInMonth" /\ call.done /\ call.year >= 1)
        => call.result = GregorianDays(call.month, call.year)

\* February of a leap century year was computed as 29 days.
C11_Witness ==
    /\ call.fn = "getDaysInMonth"
    /\ call.done
    /\ call.month = 1
    /\ call.year = 2000
    /\ call.result = 29

\* ---------------------------------------------------------------- C12
\* The weekday (0 = Sunday) of the first day of each month of 2026.
FirstWeekday2026 == <<4, 0, 0, 3, 5, 1, 3, 6, 2, 4, 0, 2>>

\* The cells of the week rows, row after row.
RECURSIVE Flatten(_)
Flatten(rows) == IF rows = <<>> THEN <<>> ELSE Head(rows) \o Flatten(Tail(rows))

\* C12: for every month of 2026 renderMonth emits week rows of exactly 7 cells:
\* as many blank cells as the weekday index of day 1, then the days 1..daysInMonth
\* in order, each once, then fewer than 7 trailing blanks; no row is empty.
C12_MonthGridOfSevenColumns ==
    (call.fn = "renderMonth" /\ call.done) =>
        LET first == FirstWeekday2026[call.month + 1]
            days == GregorianDays(call.month, 2026)
            cells == Flatten(call.body)
        IN  /\ call.body # <<>>
            /\ \A r \in 1..Len(call.body) : Len(call.body[r]) = 7
            /\ Len(cells) >= first + days
            /\ Len(cells) - (first + days) < 7
            /\ \A k \in 1..Len(cells) :
                  IF k > first /\ k <= first + days
                  THEN cells[k].kind = "day" /\ cells[k].day = k - first
                  ELSE cells[k].kind = "empty"

\* January 2026 was rendered: four leading blanks, and the last day, a Saturday,
\* closes the fifth row.
C12_Witness ==
    /\ call.fn = "renderMonth"
    /\ call.done
    /\ call.month = 0
    /\ Len(call.body) = 5
    /\ call.body[1][5].day = 1
    /\ call.body[5][7].day = 31

\* ---------------------------------------------------------------- C13
\* The list an export of the collection fetches.
FetchedList == AllEntries(OrderByDate(entries, DOMAIN entries))

\* The note of an entry as a string: a missing note is the empty string.
NoteString(entry) == IF entry.note = Undefined THEN <<>> ELSE entry.note

\* The commas and date, user and rating of a row, before its note field.
RowPrefix(entry) ==
    <<entry.userId, ",", entry.date, ",">> \o RatingText(entry.rating) \o <<",">>

\* Reads a quoted field from position p, after its opening quote: a pair of
\* quotes stands for one quote, a single quote closes the field.
RECURSIVE ReadQuoted(_, _, _)
ReadQuoted(t, p, acc) ==
    IF p > Len(t) THEN [ok |-> FALSE, v |-> acc, p |-> p]
    ELSE IF t[p] = "\""
         THEN IF p < Len(t) /\ t[p + 1] = "\"" THEN ReadQuoted(t, p + 2, Append(acc, "\""))
              ELSE [ok |-> TRUE, v |-> acc, p |-> p + 1]
         ELSE ReadQuoted(t, p + 1, Append(acc, t[p]))

\* The rows of the entries from the k-th on stand in text t from position p, one
\* after the other, each with its note field written as C13 says.
RECURSIVE RowsAsClaimed(_, _, _, _)
RowsAsClaimed(t, p, list, k) ==
    IF k > Len(list) THEN p = Len(t) + 2
    ELSE LET prefix == RowPrefix(list[k])
             note == NoteString(list[k])
             q == p + Len(prefix)
         IN  /\ q - 1 <= Len(t)
             /\ SubSeq(t, p, q - 1) = prefix
             /\ IF Includes(note, ",") \/ Includes(note, "\"")
                THEN /\ q <= Len(t)
                     /\ t[q] = "\""
                     /\ LET field == ReadQuoted(t, q + 1, <<>>)
                        IN  /\ field.ok
                            /\ field.v = note
                            /\ field.p <= Len(t) => t[field.p] = "\n"
                            /\ RowsAsClaimed(t, field.p + 1, list, k + 1)
                ELSE LET e == q + Len(note)
                     IN  /\ e - 1 <= Len(t)
                         /\ SubSeq(t, q, e - 1) = note
                         /\ e <= Len(t) => t[e] = "\n"
                         /\ RowsAsClaimed(t, e + 1, list, k + 1)

\* C13: in the CSV of exportCSV the note field of a row is the note wrapped in
\* double quotes with every quote doubled if and only if the note contains a
\* comma or a quote; otherwise it is the note itself, unquoted (a missing note
\* the empty string).
C13_NoteQuotedIffCommaOrQuote ==
    download.mimeType = "text/csv" =>
        /\ SubSeq(download.content, 1, Len(CSVHeader)) = CSVHeader
        /\ RowsAsClaimed(download.content, Len(CSVHeader) + 2, FetchedList, 1)

\* A CSV was downloaded whose rows hold a quoted note with a doubled quote and a
\* note left as it is.
C13_Witness ==
    /\ download.mimeType = "text/csv"
    /\ Len(FetchedList) = 2
    /\ FetchedList[1].note = <<"a", "\"", "b", "\"">>
    /\ FetchedList[2].note = <<"o", "k">>
    /\ Includes(download.content, "\"")

\* ---------------------------------------------------------------- C14
\* The lines of a text: the pieces between its newline characters.
RECURSIVE Lines(_, _)
Lines(t, line) ==
    IF t = <<>> THEN <<line>>
    ELSE IF Head(t) = "\n" THEN <<line>> \o Lines(Tail(t), <<>>)
    ELSE Lines(Tail(t), Append(line, Head(t)))

\* C14: for every list of N entries getAllEntries returns, the CSV text is the
\* header line followed by exactly N rows, one per entry in the order of the
\* list: N + 1 newline-separated lines in all.
C14_HeaderAndOneLinePerEntry ==
    download.mimeType = "text/csv" =>
        LET lines == Lines(download.content, <<>>)
        IN  /\ Len(lines) = Len(FetchedList) + 1
            /\ lines[1] = CSVHeader
            /\ \A k \in 1..Len(FetchedList) :
                  /\ Len(lines[k + 1]) >= 3
                  /\ lines[k + 1][1] = FetchedList[k].userId
                  /\ lines[k + 1][3] = FetchedList[k].date

\* ---------------------------------------------------------------- C15
\* The value of a field of an entry of the fetched list.
FieldValue(entry, key) ==
    IF key = "rating" THEN JsonNumber(entry.rating)
    ELSE IF key = "note"
         THEN (IF entry.note = Undefined THEN JsUndefined ELSE JsonString(entry.note))
         ELSE JsonString(<<entry[key]>>)

\* The value of a property of a parsed object.
Property(obj, key) == IF key \in DOMAIN obj THEN obj[key] ELSE JsUndefined

\* C15: parsing the JSON text of exportJSON yields a list equal to the fetched
\* list: same length, same order, each element equal field for field on userId,
\* date, rating and note.
C15_JSONRoundTrip ==
    download.mimeType = "application/json" =>
        LET parsed == JSONParse(download.content)
        IN  /\ Len(parsed) = Len(FetchedList)
            /\ \A k \in 1..Len(FetchedList) :
                  \A key \in {"userId", "date", "rating", "note"} :
                      Property(parsed[k], key) = FieldValue(FetchedList[k], key)

\* ---------------------------------------------------------------- C16
\* The step shows an error notification.
ErrorShown == \E a \in alertContainer' \ alertContainer : a.type = "danger"

\* C16: whenever a controller action ends by showing an error notification, the
\* stored entries, the cache and the viewing owner are as they were before the
\* action started; an edit submit that shows 'Failed to save entry' has neither
\* written the entry to storage nor changed the cache.  (The reload of an edit
\* submit is pending only after its write was applied and the cache updated.)
C16_ErrorLeavesStateUnchanged ==
    [][ErrorShown =>
          /\ entries' = entries
          /\ currentEntries' = currentEntries
          /\ viewingUserId' = viewingUserId
          /\ \A i \in 1..Len(pending) : LoadFails(i) => pending[i].handler # "submit"]_vars

\* ---------------------------------------------------------------- C17
\* C17: every entry the edit flow writes to storage or to the cache has a
\* rating that is an integer from 1 to 5, whatever the rating input holds.
C17_RatingBetween1And5 ==
    [][\A i \in 1..Len(pending) :
          /\ WriteApplied(i) => entries'[pending[i].docId].rating \in 1..5
          /\ SaveResumes(i) => currentEntries'[pending[i].date].rating \in 1..5]_vars

\* ---------------------------------------------------------------- C18
\* A load or a save is pending.
LoadOrSavePending(q) == \E k \in 1..Len(q) : q[k].op \in {"getDocs", "setDoc"}

\* C18: when no load or save is pending and the last load succeeded, the cache
\* equals storage restricted to the viewing owner, also after loads and saves
\* that overlapped.  Stated of the step in which a load succeeds and leaves no
\* load or save pending.
C18_QuiescentCacheEqualsStorage ==
    [][\A i \in 1..Len(pending) :
          (LoadResumes(i) /\ ~LoadOrSavePending(pending'))
              => IsMappingOf(currentEntries', StoredFor(entries', viewingUserId'))]_vars

\* ---------------------------------------------------------------- C19
\* C19: from the auth change to logged out until the next auth change to a
\* logged-in user the calendar container is empty, also when a load that
\* started before the logout resolves afterwards.
C19_ContainerEmptyWhileLoggedOut ==
    authUser = "null" => calendarContainer = EmptyContainer

\* ---------------------------------------------------------------- C20
\* C20: the loading spinner is visible whenever a controller action (login,
\* logout, user switch, edit submit, export, post-login initialisation) is
\* pending, and hidden once none is.
C20_SpinnerShownIffActionPending ==
    (loadingSpinner = "flex") <=> (pending # <<>>)

====
